---- MODULE Spec2Model ----
(***************************************************************************)
(* CockroachConnector: statement execution, transactional batches and the  *)
(* four TPC-C profiles (New Order, Payment, Delivery, Stock Level) over a   *)
(* small relational database.  The driver (psycopg2) and the backend are   *)
(* the environment: every driver call may succeed or raise.                *)
(***************************************************************************)
EXTENDS Integers, Sequences, FiniteSets, TLC

\* ------------------------------------------------------------------ bounds

\* API calls issued in one behaviour.
MaxCalls == 2

\* ------------------------------------------------------- program constants

\* for district_id in range(1, 11)
DistrictCount == 10
\* ELSE s_quantity + 91 - %s
StockRefill == 91
\* AND ol.ol_o_id >= %s - 20
StockLevelWindow == 20

\* ------------------------------------------------------------- small data

Connectors == {"c1", "c2"}
\* The connector that issues calls one after the other.
Serial == {"c1"}

\* Python's None and a present value, for fields that may be absent.
None == << >>
Some(v) == <<v>>

\* Absent SQL value (NULL) of a numeric column.
Null == 0

\* ------------------------------------------------------------- statements

\* A statement is the name of the query text with its positional parameters.
Stmt(q, p) == [q |-> q, p |-> p]

\* query.strip().upper().startswith('SELECT')
SelectQueries ==
    {"item_query", "find_order_query", "sl_next_order_query",
     "stock_level_query", "test_query"}

\* 'RETURNING' in query_upper
ReturningQueries ==
    {"next_order_query", "stock_update_query", "update_warehouse_query",
     "update_district_query", "payment_update_customer_query",
     "update_order_query", "update_order_lines_query"}

StartsWithSelect(q) == q \in SelectQueries
ContainsReturning(q) == q \in ReturningQueries

\* ---------------------------------------------------------------- helpers

\* The rows of a finite set in ascending order of column key.
SeqBy(S, key) ==
    CHOOSE f \in [1..Cardinality(S) -> S] :
        /\ \A x \in S : \E k \in 1..Cardinality(S) : f[k] = x
        /\ \A j, k \in 1..Cardinality(S) : j < k => f[j][key] <= f[k][key]

RECURSIVE SumSeq(_)
\* sum(...) over a sequence of numbers
SumSeq(s) ==
    IF s = << >> THEN 0 ELSE Head(s) + SumSeq(Tail(s))

Range(s) == {s[k] : k \in 1..Len(s)}

\* ------------------------------------------------------ database semantics

\* UPDATE district SET d_next_o_id = d_next_o_id + 1 WHERE d_w_id, d_id
NextOrderMatch(p, r) == r.d_w_id = p[1] /\ r.d_id = p[2]

StockMatch(p, r) == r.s_i_id = p[5] /\ r.s_w_id = p[6]

\* A CASE without the refill branch.
StockNeverRefilled(s_quantity, q1, q2, q3) == s_quantity - q2

\* s_quantity = CASE WHEN s_quantity >= q THEN s_quantity - q
\*                   ELSE s_quantity + 91 - q END
StockQuantity(s_quantity, q1, q2, q3) ==
    IF s_quantity >= q1 THEN s_quantity - q2 ELSE s_quantity + StockRefill - q3

PaymentCustomerMatch(p, r) ==
    r.c_w_id = p[3] /\ r.c_d_id = p[4] /\ r.c_id = p[5]

DeliveryCustomerMatch(p, r) ==
    r.c_w_id = p[2] /\ r.c_d_id = p[3] /\ r.c_id = p[4]

NewOrderMatch(p, r) == r.no_w_id = p[1] /\ r.no_d_id = p[2]

OrderMatch(p, r) == r.o_w_id = p[2] /\ r.o_d_id = p[3] /\ r.o_id = p[4]

OrderLineMatch(p, r) == r.ol_w_id = p[1] /\ r.ol_d_id = p[2] /\ r.ol_o_id = p[3]

\* The database after statement s has been applied to database D.
Effect(s, D) ==
    LET p == s.p IN
    CASE s.q = "next_order_query" ->
           [D EXCEPT !.district = {IF NextOrderMatch(p, r)
                THEN [r EXCEPT !.d_next_o_id = @ + 1]
                ELSE r : r \in @}]
      [] s.q = "insert_order_query" ->
           [D EXCEPT !.order = @ \cup
               {[o_id |-> p[1], o_d_id |-> p[2], o_w_id |-> p[3],
                 o_c_id |-> p[4], o_ol_cnt |-> p[5], o_all_local |-> p[6],
                 o_carrier_id |-> Null]}]
      [] s.q = "insert_new_order_query" ->
           [D EXCEPT !.new_order = @ \cup
               {[no_o_id |-> p[1], no_d_id |-> p[2], no_w_id |-> p[3]]}]
      [] s.q = "stock_update_query" ->
           [D EXCEPT !.stock = {IF StockMatch(p, r)
                THEN [r EXCEPT
                   !.s_quantity = StockQuantity(@, p[1], p[2], p[3]),
                   !.s_ytd = @ + p[4],
                   !.s_order_cnt = @ + 1]
                ELSE r : r \in @}]
      [] s.q = "insert_order_line_query" ->
           [D EXCEPT !.order_line = @ \cup
               {[ol_o_id |-> p[1], ol_d_id |-> p[2], ol_w_id |-> p[3],
                 ol_number |-> p[4], ol_i_id |-> p[5],
                 ol_supply_w_id |-> p[6], ol_quantity |-> p[7],
                 ol_amount |-> p[8], ol_delivery_d |-> Null]}]
      [] s.q = "update_warehouse_query" ->
           [D EXCEPT !.warehouse = {IF r.w_id = p[2]
                THEN [r EXCEPT !.w_ytd = @ + p[1]]
                ELSE r : r \in @}]
      [] s.q = "update_district_query" ->
           [D EXCEPT !.district = {IF r.d_w_id = p[2] /\ r.d_id = p[3]
                THEN [r EXCEPT !.d_ytd = @ + p[1]]
                ELSE r : r \in @}]
      [] s.q = "payment_update_customer_query" ->
           [D EXCEPT !.customer = {IF PaymentCustomerMatch(p, r)
                THEN [r EXCEPT
                   !.c_balance = @ - p[1],
                   !.c_ytd_payment = @ + p[2],
                   !.c_payment_cnt = @ + 1]
                ELSE r : r \in @}]
      [] s.q = "insert_history_query" ->
           [D EXCEPT !.history = Append(@,
               [h_c_id |-> p[1], h_c_d_id |-> p[2], h_c_w_id |-> p[3],
                h_d_id |-> p[4], h_w_id |-> p[5], h_amount |-> p[6]])]
      [] s.q = "delete_new_order_query" ->
           [D EXCEPT !.new_order =
               {r \in @ : ~(NewOrderMatch(p, r) /\ r.no_o_id = p[3])}]
      [] s.q = "update_order_query" ->
           [D EXCEPT !.order = {IF OrderMatch(p, r)
                THEN [r EXCEPT !.o_carrier_id = p[1]]
                ELSE r : r \in @}]
      [] s.q = "update_order_lines_query" ->
           [D EXCEPT !.order_line = {IF OrderLineMatch(p, r)
                THEN [r EXCEPT !.ol_delivery_d = 1]
                ELSE r : r \in @}]
      [] s.q = "delivery_update_customer_query" ->
           [D EXCEPT !.customer = {IF DeliveryCustomerMatch(p, r)
                THEN [r EXCEPT
                   !.c_balance = @ + p[1],
                   !.c_delivery_cnt = @ + 1]
                ELSE r : r \in @}]
      [] OTHER -> D

\* Items of the stock-level join that are below the threshold.
LowStockItems(p, D) ==
    {st.s_i_id : st \in
        {st \in D.stock : \E ol \in D.order_line :
            /\ st.s_i_id = ol.ol_i_id /\ st.s_w_id = ol.ol_supply_w_id
            /\ ol.ol_w_id = p[1] /\ ol.ol_d_id = p[2]
            /\ ol.ol_o_id >= p[3] - StockLevelWindow
            /\ ol.ol_o_id < p[4]
            /\ st.s_quantity < p[5]}}

\* Mutant: the count is taken over the joined rows, not over distinct items.
LowStockLines(p, D) ==
    Cardinality({pair \in D.stock \X D.order_line :
        /\ pair[1].s_i_id = pair[2].ol_i_id
        /\ pair[1].s_w_id = pair[2].ol_supply_w_id
        /\ pair[2].ol_w_id = p[1] /\ pair[2].ol_d_id = p[2]
        /\ pair[2].ol_o_id >= p[3] - StockLevelWindow
        /\ pair[2].ol_o_id < p[4]
        /\ pair[1].s_quantity < p[5]})

\* SELECT COUNT(DISTINCT s.s_i_id) as low_stock_count
LowStockCount(p, D) == Cardinality(LowStockItems(p, D))

\* The rows statement s makes available to fetchall() when run on D.
Returned(s, D) ==
    LET p == s.p
        E == Effect(s, D)
    IN
    CASE s.q = "next_order_query" ->
           SeqBy({[order_id |-> r.d_next_o_id - 1] :
                    r \in {r \in E.district : NextOrderMatch(p, r)}},
                 "order_id")
      [] s.q = "item_query" ->
           SeqBy({[i_price |-> r.i_price, i_name |-> r.i_id] :
                    r \in {r \in D.item : r.i_id = p[1]}},
                 "i_name")
      [] s.q = "stock_update_query" ->
           SeqBy({[s_quantity |-> r.s_quantity] :
                    r \in {r \in E.stock : StockMatch(p, r)}},
                 "s_quantity")
      [] s.q = "update_warehouse_query" ->
           SeqBy({[w_name |-> r.w_id] :
                    r \in {r \in E.warehouse : r.w_id = p[2]}},
                 "w_name")
      [] s.q = "update_district_query" ->
           SeqBy({[d_name |-> r.d_id] :
                    r \in {r \in E.district :
                             r.d_w_id = p[2] /\ r.d_id = p[3]}},
                 "d_name")
      [] s.q = "payment_update_customer_query" ->
           SeqBy({[c_last |-> r.c_id, c_balance |-> r.c_balance] :
                    r \in {r \in E.customer : PaymentCustomerMatch(p, r)}},
                 "c_last")
      [] s.q = "find_order_query" ->
           LET all == SeqBy({[no_o_id |-> r.no_o_id] :
                               r \in {r \in D.new_order : NewOrderMatch(p, r)}},
                            "no_o_id")
           IN  IF all = << >> THEN << >> ELSE <<Head(all)>>
      [] s.q = "update_order_query" ->
           SeqBy({[o_c_id |-> r.o_c_id] :
                    r \in {r \in E.order : OrderMatch(p, r)}},
                 "o_c_id")
      [] s.q = "update_order_lines_query" ->
           LET lines == SeqBy({r \in E.order_line : OrderLineMatch(p, r)},
                              "ol_number")
           IN  [k \in 1..Len(lines) |-> [ol_amount |-> lines[k].ol_amount]]
      [] s.q = "sl_next_order_query" ->
           SeqBy({[d_next_o_id |-> r.d_next_o_id] :
                    r \in {r \in D.district : NextOrderMatch(p, r)}},
                 "d_next_o_id")
      [] s.q = "stock_level_query" ->
           <<[low_stock_count |-> LowStockCount(p, D)]>>
      [] s.q = "test_query" -> <<[test_value |-> 1]>>
      [] OTHER -> << >>

RECURSIVE ApplyAll(_, _)
\* The database after the statements of a transaction, in order.
ApplyAll(stmts, D) ==
    IF stmts = << >> THEN D ELSE ApplyAll(Tail(stmts), Effect(Head(stmts), D))

\* ------------------------------------------------------------------ state

VARIABLES
    db,          \* committed contents of the database
    connection,  \* self.connection of each connector: "open" or "none"
    autocommit,  \* self.connection.autocommit of each connector
    tx,          \* statements executed in each connection's open transaction
    call,        \* the running API call of each connector and its locals
    txn,         \* the running execute_in_transaction of each connector
    log,         \* driver calls issued by each connector's current API call
    pre,         \* the database when each connector's current API call began
    ret,         \* outcome of each connector's last completed API call
    burned,      \* order ids allocated by New Order calls that then failed
    ncalls,      \* API calls issued so far
    allocated,   \* order ids handed out by the allocation statement, in order
    delivered,   \* orders whose Delivery batch has committed, one per batch
    environ,     \* os.environ: the settings the factory and constructor read
    created      \* outcome of the last call of a factory function

vars ==
    <<db, connection, autocommit, tx, call, txn, log, pre, ret, burned, ncalls,
      allocated, delivered, environ, created>>

\* One warehouse with its districts, one customer per district, two items
\* in stock, one order of district 3 waiting for delivery, and three
\* delivered orders of district 1, whose counter has moved on to 22 (the
\* ids in between were allocated by calls that failed).
InitDB ==
    [warehouse  |-> {[w_id |-> 1, w_ytd |-> 0]},
     district   |-> {[d_w_id |-> 1, d_id |-> d,
                      d_next_o_id |-> IF d = 1 THEN 22
                                      ELSE IF d = 3 THEN 2 ELSE 1,
                      d_ytd |-> 0] : d \in 1..DistrictCount},
     customer   |-> {[c_w_id |-> 1, c_d_id |-> d, c_id |-> 1,
                      c_balance |-> 10, c_ytd_payment |-> 0,
                      c_payment_cnt |-> 0, c_delivery_cnt |-> 0] :
                        d \in 1..DistrictCount},
     item       |-> {[i_id |-> 1, i_price |-> 3], [i_id |-> 2, i_price |-> 5]},
     stock      |-> {[s_i_id |-> i, s_w_id |-> 1, s_quantity |-> 4,
                      s_ytd |-> 0, s_order_cnt |-> 0] : i \in {1, 2}},
     order      |-> {[o_id |-> 1, o_d_id |-> 3, o_w_id |-> 1, o_c_id |-> 1,
                      o_ol_cnt |-> 1, o_all_local |-> 1,
                      o_carrier_id |-> Null]}
                    \cup {[o_id |-> o, o_d_id |-> 1, o_w_id |-> 1,
                           o_c_id |-> 1, o_ol_cnt |-> 1, o_all_local |-> 1,
                           o_carrier_id |-> 5] : o \in {1, 2, 21}},
     new_order  |-> {[no_o_id |-> 1, no_d_id |-> 3, no_w_id |-> 1]},
     order_line |-> {[ol_o_id |-> 1, ol_d_id |-> 3, ol_w_id |-> 1,
                      ol_number |-> 1, ol_i_id |-> 1, ol_supply_w_id |-> 1,
                      ol_quantity |-> 2, ol_amount |-> 6,
                      ol_delivery_d |-> Null]}
                    \cup {[ol_o_id |-> o, ol_d_id |-> 1, ol_w_id |-> 1,
                           ol_number |-> 1,
                           ol_i_id |-> IF o = 1 THEN 2 ELSE 1,
                           ol_supply_w_id |-> 1, ol_quantity |-> 1,
                           ol_amount |-> IF o = 1 THEN 5 ELSE 3,
                           ol_delivery_d |-> 1] : o \in {1, 2, 21}},
     history    |-> << >>]

\* An error value: what raised it and, for a statement of a batch, which one.
Error(kind, idx) == [kind |-> kind, idx |-> idx]
NoError == Error("none", 0)
\* RuntimeError("No database connection available")
NoConnectionError == Error("No database connection available", 0)

IdleCall ==
    [op |-> "idle", pc |-> "idle",
     warehouse_id |-> 0, district_id |-> 0, customer_id |-> 0,
     items |-> << >>, amount |-> 0, carrier_id |-> 0, threshold |-> 0,
     order_id |-> 0, operations |-> << >>, line_number |-> 0,
     total_amount |-> 0, order_lines |-> << >>, delivered_orders |-> << >>,
     next_order_id |-> 0, result |-> None, step_raised |-> FALSE]

IdleTxn ==
    [pc |-> "off", operations |-> << >>, i |-> 0, results |-> << >>,
     produced |-> << >>, original_autocommit |-> TRUE, err |-> NoError,
     rollback_raised |-> FALSE, pre |-> InitDB, from |-> 0]

NoRet ==
    [op |-> "none", frame |-> IdleCall, raised |-> FALSE, err |-> NoError,
     result |-> << >>]

\* The environment the connectors of Init were constructed in.
StudyEnviron ==
    [DB_PROVIDER |-> Some("cockroach"),
     COCKROACH_CONNECTION_STRING |-> Some("postgresql://")]

\* No factory function has been called.
NoCreation ==
    [fn |-> "none", provider |-> "", raised |-> FALSE, err |-> NoError,
     constructed |-> FALSE, connector |-> None]

\* After construction: the connection is open and in autocommit mode.
Init ==
    /\ db = InitDB
    /\ connection = [c \in Connectors |-> "open"]
    /\ autocommit = [c \in Connectors |-> TRUE]
    /\ tx = [c \in Connectors |-> << >>]
    /\ call = [c \in Connectors |-> IdleCall]
    /\ txn = [c \in Connectors |-> IdleTxn]
    /\ log = [c \in Connectors |-> << >>]
    /\ pre = [c \in Connectors |-> InitDB]
    /\ ret = [c \in Connectors |-> NoRet]
    /\ burned = {}
    /\ ncalls = 0
    /\ allocated = << >>
    /\ delivered = << >>
    /\ environ = StudyEnviron
    /\ created = NoCreation

\* ----------------------------------------------------------------- driver

NoStmt == Stmt("", << >>)
Event(ev, s) == [ev |-> ev, stmt |-> s]

\* What connector c's connection sees: the committed database with the
\* statements of its own open transaction applied.
View(c) == ApplyAll(tx[c], db)

\* Mutant: a statement's effect is not committed with the statement.
StatementNotCommitted(c, s) == db

\* cursor.execute(query, params) succeeding on connector c.
DriverDb(c, s) == IF autocommit[c] THEN Effect(s, db) ELSE db
DriverTx(c, s) == IF autocommit[c] THEN tx[c] ELSE Append(tx[c], s)

\* A caller may start a call on connector c.
CanCall(c) == call[c].op = "idle" /\ ncalls < MaxCalls

Begin(c, frame) ==
    /\ call' = [call EXCEPT ![c] = frame]
    /\ log' = [log EXCEPT ![c] = << >>]
    /\ pre' = [pre EXCEPT ![c] = db]
    /\ ret' = [ret EXCEPT ![c] = NoRet]
    /\ burned' = burned
    /\ ncalls' = ncalls + 1

\* A New Order call that ends in failure once its order id was allocated.
LosesOrderId(frame, result) ==
    /\ frame.op = "execute_new_order"
    /\ frame.pc \in {"items", "batch"}
    /\ ~result.success

\* The call of connector c ends: it returns result or raises err.
Finish(c, frame, raised, err, result) ==
    /\ ret' = [ret EXCEPT ![c] =
                 [op |-> frame.op, frame |-> frame, raised |-> raised,
                  err |-> err, result |-> result]]
    /\ call' = [call EXCEPT ![c] = IdleCall]
    /\ burned' = IF LosesOrderId(frame, result)
                 THEN burned \cup {<<frame.warehouse_id, frame.district_id,
                                     frame.order_id>>}
                 ELSE burned

\* except Exception: the frame of a call in which a step has raised.
Caught(frame) == [frame EXCEPT !.step_raised = TRUE]

\* --------------------------------------------------------- execute_query

\* if query_upper.startswith('SELECT') or 'RETURNING' in query_upper
FetchesInQuery(q) == StartsWithSelect(q) \/ ContainsReturning(q)

\* Mutant: a statement that raised is executed once more before the error
\* is passed on.
ExecuteQueryRetried(c, s, fail) ==
    IF connection[c] = "none"
    THEN [raised |-> TRUE, err |-> NoConnectionError, rows |-> << >>,
          db |-> db, tx |-> tx[c], log |-> log[c]]
    ELSE IF fail
    THEN [raised |-> TRUE, err |-> Error("execute", 0), rows |-> << >>,
          db |-> db, tx |-> tx[c],
          log |-> log[c] \o <<Event("execute", s), Event("execute", s)>>]
    ELSE [raised |-> FALSE, err |-> NoError,
          rows |-> IF FetchesInQuery(s.q) THEN Returned(s, View(c))
                   ELSE << >>,
          db |-> DriverDb(c, s), tx |-> DriverTx(c, s),
          log |-> Append(log[c], Event("execute", s))]

\* execute_query(query, params) on connector c; fail: the driver raises.
\* Gives whether it raised, the error, the rows returned, the database
\* and the open transaction afterwards, and the driver calls issued.
ExecuteQuery(c, s, fail) ==
    IF connection[c] = "none"
    THEN [raised |-> TRUE, err |-> NoConnectionError, rows |-> << >>,
          db |-> db, tx |-> tx[c], log |-> log[c]]
    ELSE IF fail
    THEN [raised |-> TRUE, err |-> Error("execute", 0), rows |-> << >>,
          db |-> db, tx |-> tx[c],
          log |-> Append(log[c], Event("execute", s))]
    ELSE [raised |-> FALSE, err |-> NoError,
          rows |-> IF FetchesInQuery(s.q) THEN Returned(s, View(c))
                   ELSE << >>,
          db |-> DriverDb(c, s), tx |-> DriverTx(c, s),
          log |-> Append(log[c], Event("execute", s))]

\* ------------------------------------------------ execute_in_transaction

\* Mutant: the batch runs without suspending autocommit.
AutocommitKept == TRUE

\* self.connection.autocommit = False
TransactionAutocommit == FALSE

\* Mutant: autocommit is restored on the success path only.
AutocommitRestoredOnSuccess(original_autocommit, current, raised) ==
    IF raised THEN current ELSE original_autocommit

\* finally: self.connection.autocommit = original_autocommit
\* The flag once the batch has ended, whether or not it raised.
AutocommitAfterBatch(original_autocommit, current, raised) ==
    original_autocommit

\* if query.strip().upper().startswith('SELECT')
FetchesInTransaction(q) == StartsWithSelect(q)

\* Mutant: the handler raises a new error that no longer names the statement.
RaisedWithoutStatement(err, rollback_failed) ==
    IF rollback_failed THEN Error("rollback", 0) ELSE Error(err.kind, 0)

\* The error the call raises once the handler's rollback has run.
RaisedAfterRollback(err, rollback_failed) ==
    IF rollback_failed THEN Error("rollback", 0) ELSE err

\* execute_in_transaction(operations) is entered by connector c.
StartTxn(c, operations, from) ==
    txn' = [txn EXCEPT ![c] =
              [IdleTxn EXCEPT !.pc = "begin", !.operations = operations,
                              !.pre = db, !.from = from]]

\* if not self.connection: raise; else suspend autocommit.
TxnBegin(c) ==
    /\ txn[c].pc = "begin"
    /\ IF connection[c] = "none"
       THEN /\ txn' = [txn EXCEPT ![c] =
                         [@ EXCEPT !.pc = "raised",
                                   !.err = NoConnectionError]]
            /\ UNCHANGED autocommit
       ELSE /\ txn' = [txn EXCEPT ![c] =
                         [@ EXCEPT !.pc = "stmt", !.i = 1,
                                   !.original_autocommit = autocommit[c]]]
            /\ autocommit' = [autocommit EXCEPT ![c] = TransactionAutocommit]
    /\ UNCHANGED <<db, connection, tx, call, log, pre, ret, burned, ncalls,
                   allocated, delivered, environ, created>>

\* One iteration of: for query, params in operations.
TxnStatement(c) ==
    /\ txn[c].pc = "stmt"
    /\ txn[c].i <= Len(txn[c].operations)
    /\ LET s == txn[c].operations[txn[c].i] IN
       /\ log' = [log EXCEPT ![c] = Append(@, Event("execute", s))]
       /\ \E fail \in BOOLEAN :
            IF fail
            THEN /\ txn' = [txn EXCEPT ![c] =
                              [@ EXCEPT !.pc = "rollback",
                                        !.err = Error("execute", txn[c].i)]]
                 /\ UNCHANGED <<db, tx>>
            ELSE /\ db' = DriverDb(c, s)
                 /\ tx' = [tx EXCEPT ![c] = DriverTx(c, s)]
                 /\ txn' = [txn EXCEPT ![c] =
                              [@ EXCEPT
                                 !.i = @ + 1,
                                 !.produced =
                                     Append(@, Returned(s, View(c))),
                                 !.results =
                                     Append(@, IF FetchesInTransaction(s.q)
                                               THEN Returned(s, View(c))
                                               ELSE << >>)]]
    /\ UNCHANGED <<connection, autocommit, call, pre, ret, burned, ncalls,
                   allocated, delivered, environ, created>>

\* self.connection.commit() after the last statement; on success the
\* finally clause restores autocommit and the results are returned.
TxnCommit(c) ==
    /\ txn[c].pc = "stmt"
    /\ txn[c].i > Len(txn[c].operations)
    /\ log' = [log EXCEPT ![c] = Append(@, Event("commit", NoStmt))]
    /\ \E fail \in BOOLEAN :
         IF fail
         THEN /\ txn' = [txn EXCEPT ![c] =
                           [@ EXCEPT !.pc = "rollback",
                                     !.err = Error("commit", 0)]]
              /\ UNCHANGED <<db, tx, autocommit>>
         ELSE /\ db' = ApplyAll(tx[c], db)
              /\ tx' = [tx EXCEPT ![c] = << >>]
              /\ autocommit' = [autocommit EXCEPT ![c] =
                     AutocommitAfterBatch(txn[c].original_autocommit,
                                          autocommit[c], FALSE)]
              /\ txn' = [txn EXCEPT ![c] = [@ EXCEPT !.pc = "returned"]]
    /\ UNCHANGED <<connection, call, pre, ret, burned, ncalls, allocated,
                   delivered, environ, created>>

\* except: self.connection.rollback(); raise -- then the finally clause.
\* The open transaction is gone whether or not the rollback call raises.
TxnRollback(c) ==
    /\ txn[c].pc = "rollback"
    /\ log' = [log EXCEPT ![c] = Append(@, Event("rollback", NoStmt))]
    /\ tx' = [tx EXCEPT ![c] = << >>]
    /\ autocommit' = [autocommit EXCEPT ![c] =
           AutocommitAfterBatch(txn[c].original_autocommit,
                                autocommit[c], TRUE)]
    /\ \E fail \in BOOLEAN :
         txn' = [txn EXCEPT ![c] =
                   [@ EXCEPT !.pc = "raised",
                             !.rollback_raised = fail,
                             !.err = RaisedAfterRollback(@, fail)]]
    /\ UNCHANGED <<db, connection, call, pre, ret, burned, ncalls, allocated,
                   delivered, environ, created>>

\* The batch call of connector c has ended.
TxnEnded(c) == txn[c].pc \in {"returned", "raised"}

\* Batches a caller passes to execute_in_transaction directly.
Batches ==
    {<< >>,
     <<Stmt("update_warehouse_query", <<2, 1>>),
       Stmt("sl_next_order_query", <<1, 1>>)>>,
     <<Stmt("insert_history_query", <<1, 1, 1, 1, 1, 2>>),
       Stmt("payment_update_customer_query", <<2, 2, 1, 1, 1>>),
       Stmt("delete_new_order_query", <<1, 3, 1>>)>>}

ExecuteInTransactionCall(c) ==
    /\ CanCall(c)
    /\ \E operations \in Batches :
         /\ Begin(c, [IdleCall EXCEPT !.op = "execute_in_transaction",
                                      !.pc = "batch",
                                      !.operations = operations])
         /\ StartTxn(c, operations, 0)
    /\ UNCHANGED <<db, connection, autocommit, tx, allocated, delivered,
                   environ, created>>

\* return results, or the exception leaves the outer handler (raise).
ExecuteInTransactionReturn(c) ==
    /\ call[c].op = "execute_in_transaction"
    /\ TxnEnded(c)
    /\ Finish(c, call[c], txn[c].pc = "raised", txn[c].err, txn[c].results)
    /\ txn' = [txn EXCEPT ![c] = IdleTxn]
    /\ UNCHANGED <<db, connection, autocommit, tx, log, pre, ncalls,
                   allocated, delivered, environ, created>>

\* Statements a caller passes to execute_query directly.
Queries ==
    {Stmt("find_order_query", <<1, 3>>),
     Stmt("update_district_query", <<2, 1, 1>>),
     Stmt("delivery_update_customer_query", <<6, 1, 3, 1>>)}

\* A direct execute_query call: it returns the rows or raises.
ExecuteQueryCall(c) ==
    /\ CanCall(c)
    /\ \E s \in Queries, fail \in BOOLEAN :
         LET frame == [IdleCall EXCEPT !.op = "execute_query",
                                       !.operations = <<s>>,
                                       !.step_raised =
                                           connection[c] # "none" /\ fail]
             o == ExecuteQuery(c, s, fail)
         IN  /\ ret' = [ret EXCEPT ![c] =
                          [op |-> "execute_query", frame |-> frame,
                           raised |-> o.raised, err |-> o.err,
                           result |-> o.rows]]
             /\ db' = o.db
             /\ tx' = [tx EXCEPT ![c] = o.tx]
             /\ log' = [log EXCEPT ![c] = SubSeq(o.log, Len(log[c]) + 1,
                                                 Len(o.log))]
             /\ pre' = [pre EXCEPT ![c] = db]
             /\ ncalls' = ncalls + 1
    /\ UNCHANGED <<connection, autocommit, call, txn, burned, allocated,
                   delivered, environ, created>>

\* ------------------------------------------------------- profile results

\* Mutant: the handler's result keeps the success flag set.
FailureFlaggedSuccess(err) == [success |-> TRUE, error |-> err]

\* except Exception as e: return {"success": False, "error": str(e)}
Failure(err) == [success |-> FALSE, error |-> err]

\* item.get('supply_warehouse_id', warehouse_id)
SupplyWarehouse(item, warehouse_id) ==
    IF "supply_warehouse_id" \in DOMAIN item
    THEN item.supply_warehouse_id ELSE warehouse_id

\* ----------------------------------------------------- execute_new_order

\* Mutant: the order id is the counter's value after the increment.
OrderIdAfterIncrement(rows) == rows[1].order_id + 1

\* RETURNING d_next_o_id - 1 as order_id; order_id_result[0]['order_id']
OrderIdOf(rows) == rows[1].order_id

\* Mutant: the line amount is the unit price, whatever the quantity.
UnitPriceAmount(quantity, item_price) == item_price

\* line_amount = quantity * float(item_price)
LineAmount(quantity, item_price) == quantity * item_price

\* 1 if all(item.get('supply_warehouse_id', warehouse_id) == warehouse_id ...)
AllLocal(items, warehouse_id) ==
    IF \A k \in 1..Len(items) :
          SupplyWarehouse(items[k], warehouse_id) = warehouse_id
    THEN 1 ELSE 0

\* Districts and item lists callers order with; district 11 and item 9
\* do not exist.
NewOrderDistricts == {1, 3, 11}
ItemLists ==
    {<< >>,
     <<[item_id |-> 1, quantity |-> 1]>>,
     <<[item_id |-> 2, quantity |-> 5],
       [item_id |-> 1, supply_warehouse_id |-> 1, quantity |-> 2]>>,
     <<[item_id |-> 1, quantity |-> 1], [item_id |-> 9, quantity |-> 1]>>}

\* execute_new_order(1, d, 1, items) is called on connector c.
NewOrderCallWith(c, districts, lists) ==
    /\ CanCall(c)
    /\ \E d \in districts, items \in lists :
         Begin(c, [IdleCall EXCEPT !.op = "execute_new_order",
                                   !.pc = "alloc",
                                   !.warehouse_id = 1, !.district_id = d,
                                   !.customer_id = 1, !.items = items])
    /\ UNCHANGED <<db, connection, autocommit, tx, txn, allocated, delivered,
                   environ, created>>

ExecuteNewOrderCall(c) == NewOrderCallWith(c, NewOrderDistricts, ItemLists)

\* The order id is taken from the district counter by a statement of its
\* own, then the order header and the new-order marker are queued.
NewOrderAllocate(c) ==
    /\ call[c].op = "execute_new_order" /\ call[c].pc = "alloc"
    /\ \E fail \in BOOLEAN :
         LET f == call[c]
             o == ExecuteQuery(c, Stmt("next_order_query",
                      <<f.warehouse_id, f.district_id>>), fail)
             order_id == OrderIdOf(o.rows)
         IN  /\ db' = o.db
             /\ tx' = [tx EXCEPT ![c] = o.tx]
             /\ log' = [log EXCEPT ![c] = o.log]
             /\ allocated' = IF o.raised \/ o.rows = << >> THEN allocated
                              ELSE Append(allocated,
                                     [w_id |-> f.warehouse_id,
                                      d_id |-> f.district_id,
                                      order_id |-> order_id])
             /\ IF o.raised
                THEN Finish(c, Caught(f), FALSE, NoError, Failure(o.err))
                ELSE IF o.rows = << >>
                THEN Finish(c, f, FALSE, NoError,
                       Failure(Error("Failed to generate order ID", 0)))
                ELSE /\ call' = [call EXCEPT ![c] =
                           [f EXCEPT
                              !.pc = "items",
                              !.order_id = order_id,
                              !.line_number = 1,
                              !.operations =
                                <<Stmt("insert_order_query",
                                    <<order_id, f.district_id, f.warehouse_id,
                                      f.customer_id, Len(f.items),
                                      AllLocal(f.items, f.warehouse_id)>>),
                                  Stmt("insert_new_order_query",
                                    <<order_id, f.district_id,
                                      f.warehouse_id>>)>>]]
                     /\ UNCHANGED <<ret, burned>>
    /\ UNCHANGED <<connection, autocommit, txn, pre, ncalls, delivered,
                   environ, created>>

\* One iteration of: for line_number, item in enumerate(items, 1).
NewOrderItem(c) ==
    /\ call[c].op = "execute_new_order" /\ call[c].pc = "items"
    /\ call[c].line_number <= Len(call[c].items)
    /\ \E fail \in BOOLEAN :
         LET f == call[c]
             line_number == f.line_number
             item == f.items[line_number]
             item_id == item.item_id
             supply_warehouse_id == SupplyWarehouse(item, f.warehouse_id)
             quantity == item.quantity
             o == ExecuteQuery(c, Stmt("item_query", <<item_id>>), fail)
             item_price == o.rows[1].i_price
             line_amount == LineAmount(quantity, item_price)
         IN  /\ db' = o.db
             /\ tx' = [tx EXCEPT ![c] = o.tx]
             /\ log' = [log EXCEPT ![c] = o.log]
             /\ IF o.raised
                THEN Finish(c, Caught(f), FALSE, NoError, Failure(o.err))
                ELSE IF o.rows = << >>
                THEN Finish(c, f, FALSE, NoError,
                       Failure(Error("Item not found", item_id)))
                ELSE /\ call' = [call EXCEPT ![c] =
                           [f EXCEPT
                              !.line_number = @ + 1,
                              !.total_amount = @ + line_amount,
                              !.operations = @ \o
                                <<Stmt("stock_update_query",
                                    <<quantity, quantity, quantity, quantity,
                                      item_id, supply_warehouse_id>>),
                                  Stmt("insert_order_line_query",
                                    <<f.order_id, f.district_id,
                                      f.warehouse_id, line_number, item_id,
                                      supply_warehouse_id, quantity,
                                      line_amount>>)>>,
                              !.order_lines = Append(@,
                                [ol_number |-> line_number,
                                 ol_i_id |-> item_id,
                                 ol_supply_w_id |-> supply_warehouse_id,
                                 ol_quantity |-> quantity,
                                 ol_amount |-> line_amount])]]
                     /\ UNCHANGED <<ret, burned>>
    /\ UNCHANGED <<connection, autocommit, txn, pre, ncalls, allocated,
                   delivered, environ, created>>

\* self.execute_in_transaction(operations) once every item is queued.
NewOrderBatch(c) ==
    /\ call[c].op = "execute_new_order" /\ call[c].pc = "items"
    /\ call[c].line_number > Len(call[c].items)
    /\ call' = [call EXCEPT ![c] = [@ EXCEPT !.pc = "batch"]]
    /\ StartTxn(c, call[c].operations, Len(log[c]))
    /\ UNCHANGED <<db, connection, autocommit, tx, log, pre, ret, burned,
                   ncalls, allocated, delivered, environ, created>>

\* The success result, or the handler's failure result when the batch raised.
NewOrderReturn(c) ==
    /\ call[c].op = "execute_new_order" /\ call[c].pc = "batch"
    /\ TxnEnded(c)
    /\ LET f == call[c] IN
       IF txn[c].pc = "raised"
       THEN Finish(c, Caught(f), FALSE, NoError, Failure(txn[c].err))
       ELSE Finish(c, f, FALSE, NoError,
              [success |-> TRUE, order_id |-> f.order_id,
               warehouse_id |-> f.warehouse_id,
               district_id |-> f.district_id,
               customer_id |-> f.customer_id,
               total_amount |-> f.total_amount,
               order_lines |-> f.order_lines])
    /\ txn' = [txn EXCEPT ![c] = IdleTxn]
    /\ UNCHANGED <<db, connection, autocommit, tx, log, pre, ncalls,
                   allocated, delivered, environ, created>>

\* -------------------------------------------------------- execute_payment

\* results[2][0]['c_balance'] if results and len(results) > 2 and results[2]
\* else None
CustomerBalanceOf(results) ==
    IF results # << >> /\ Len(results) > 2 /\ results[3] # << >>
    THEN Some(results[3][1].c_balance) ELSE None

\* Customers and amounts callers pay with; customer 9 does not exist.
PaymentCustomers == {1, 9}
PaymentAmounts == {2}

\* The four statements are queued and the batch is started.
ExecutePaymentCall(c) ==
    /\ CanCall(c)
    /\ \E customer_id \in PaymentCustomers, amount \in PaymentAmounts :
         LET warehouse_id == 1
             district_id == 1
             operations ==
               <<Stmt("update_warehouse_query", <<amount, warehouse_id>>),
                 Stmt("update_district_query",
                      <<amount, warehouse_id, district_id>>),
                 Stmt("payment_update_customer_query",
                      <<amount, amount, warehouse_id, district_id,
                        customer_id>>),
                 Stmt("insert_history_query",
                      <<customer_id, district_id, warehouse_id, district_id,
                        warehouse_id, amount>>)>>
         IN  /\ Begin(c, [IdleCall EXCEPT !.op = "execute_payment",
                                          !.pc = "batch",
                                          !.warehouse_id = warehouse_id,
                                          !.district_id = district_id,
                                          !.customer_id = customer_id,
                                          !.amount = amount,
                                          !.operations = operations])
             /\ StartTxn(c, operations, 0)
    /\ UNCHANGED <<db, connection, autocommit, tx, allocated, delivered,
                   environ, created>>

PaymentReturn(c) ==
    /\ call[c].op = "execute_payment" /\ call[c].pc = "batch"
    /\ TxnEnded(c)
    /\ LET f == call[c] IN
       IF txn[c].pc = "raised"
       THEN Finish(c, Caught(f), FALSE, NoError, Failure(txn[c].err))
       ELSE Finish(c, f, FALSE, NoError,
              [success |-> TRUE, warehouse_id |-> f.warehouse_id,
               district_id |-> f.district_id,
               customer_id |-> f.customer_id, amount |-> f.amount,
               customer_balance |-> CustomerBalanceOf(txn[c].results)])
    /\ txn' = [txn EXCEPT ![c] = IdleTxn]
    /\ UNCHANGED <<db, connection, autocommit, tx, log, pre, ncalls,
                   allocated, delivered, environ, created>>

\* ------------------------------------------------------- execute_delivery

\* customer_id = results[1][0]['o_c_id'] if results[1] else None
DeliveryCustomerOf(results) ==
    IF results[2] # << >> THEN Some(results[2][1].o_c_id) ELSE None

\* total_amount = sum(float(line['ol_amount']) for line in order_line_amounts)
DeliveryTotalOf(results) ==
    SumSeq([k \in 1..Len(results[3]) |-> results[3][k].ol_amount])

\* if customer_id and total_amount > 0
DeliveryCredits(customer, total_amount) ==
    customer # None /\ customer[1] # 0 /\ total_amount > 0

ExecuteDeliveryCall(c) ==
    /\ CanCall(c)
    /\ Begin(c, [IdleCall EXCEPT !.op = "execute_delivery", !.pc = "find",
                                 !.warehouse_id = 1, !.carrier_id = 7,
                                 !.district_id = 1])
    /\ UNCHANGED <<db, connection, autocommit, tx, txn, allocated, delivered,
                   environ, created>>

\* Mutant: a district that raised ends the loop (break instead of continue).
StopsAtFailedDistrict(f) ==
    [f EXCEPT !.pc = "find",
              !.district_id = IF f.step_raised THEN DistrictCount + 1
                              ELSE @ + 1]

\* continue: the loop goes on with the next district.
NextDistrict(f) == [f EXCEPT !.pc = "find", !.district_id = @ + 1]

\* Find the oldest undelivered order of the district; when there is one,
\* queue the three statements and start the district's batch.
DeliveryFind(c) ==
    /\ call[c].op = "execute_delivery" /\ call[c].pc = "find"
    /\ call[c].district_id <= DistrictCount
    /\ \E fail \in BOOLEAN :
         LET f == call[c]
             o == ExecuteQuery(c, Stmt("find_order_query",
                      <<f.warehouse_id, f.district_id>>), fail)
             order_id == o.rows[1].no_o_id
             operations ==
               <<Stmt("delete_new_order_query",
                      <<f.warehouse_id, f.district_id, order_id>>),
                 Stmt("update_order_query",
                      <<f.carrier_id, f.warehouse_id, f.district_id,
                        order_id>>),
                 Stmt("update_order_lines_query",
                      <<f.warehouse_id, f.district_id, order_id>>)>>
         IN  /\ db' = o.db
             /\ tx' = [tx EXCEPT ![c] = o.tx]
             /\ log' = [log EXCEPT ![c] = o.log]
             /\ IF o.raised
                THEN /\ call' = [call EXCEPT ![c] = NextDistrict(Caught(f))]
                     /\ UNCHANGED txn
                ELSE IF o.rows = << >>
                THEN /\ call' = [call EXCEPT ![c] = NextDistrict(f)]
                     /\ UNCHANGED txn
                ELSE /\ call' = [call EXCEPT ![c] =
                           [f EXCEPT !.pc = "batch", !.order_id = order_id,
                                     !.operations = operations]]
                     /\ StartTxn(c, operations, Len(o.log))
    /\ UNCHANGED <<connection, autocommit, pre, ret, burned, ncalls,
                   allocated, delivered, environ, created>>

\* After the district's batch: credit the customer and record the delivery,
\* or skip the district when the batch or the credit raised.
DeliveryAfterBatch(c) ==
    /\ call[c].op = "execute_delivery" /\ call[c].pc = "batch"
    /\ TxnEnded(c)
    /\ \E fail \in BOOLEAN :
         LET f == call[c]
             results == txn[c].results
             customer == DeliveryCustomerOf(results)
             total_amount == DeliveryTotalOf(results)
             o == ExecuteQuery(c, Stmt("delivery_update_customer_query",
                      <<total_amount, f.warehouse_id, f.district_id,
                        customer[1]>>), fail)
         IN  IF txn[c].pc = "raised"
             THEN /\ call' = [call EXCEPT ![c] = NextDistrict(Caught(f))]
                  /\ UNCHANGED <<db, tx, log>>
             ELSE IF ~(results # << >> /\ Len(results) >= 3)
                     \/ ~DeliveryCredits(customer, total_amount)
             THEN /\ call' = [call EXCEPT ![c] = NextDistrict(f)]
                  /\ UNCHANGED <<db, tx, log>>
             ELSE /\ db' = o.db
                  /\ tx' = [tx EXCEPT ![c] = o.tx]
                  /\ log' = [log EXCEPT ![c] = o.log]
                  /\ call' = [call EXCEPT ![c] =
                        IF o.raised THEN NextDistrict(Caught(f))
                        ELSE [NextDistrict(f) EXCEPT
                                !.delivered_orders = Append(@,
                                  [district_id |-> f.district_id,
                                   order_id |-> f.order_id,
                                   customer_id |-> customer[1],
                                   total_amount |-> total_amount])]]
    /\ delivered' = IF txn[c].pc = "returned"
                    THEN Append(delivered,
                           [w_id |-> call[c].warehouse_id,
                            d_id |-> call[c].district_id,
                            order_id |-> call[c].order_id])
                    ELSE delivered
    /\ txn' = [txn EXCEPT ![c] = IdleTxn]
    /\ UNCHANGED <<connection, autocommit, pre, ret, burned, ncalls,
                   allocated, environ, created>>

\* After the last district the call returns its summary.
DeliveryReturn(c) ==
    /\ call[c].op = "execute_delivery" /\ call[c].pc = "find"
    /\ call[c].district_id > DistrictCount
    /\ LET f == call[c] IN
       Finish(c, f, FALSE, NoError,
         [success |-> TRUE, warehouse_id |-> f.warehouse_id,
          carrier_id |-> f.carrier_id,
          delivered_orders |-> f.delivered_orders,
          orders_delivered |-> Len(f.delivered_orders)])
    /\ UNCHANGED <<db, connection, autocommit, tx, txn, log, pre, ncalls,
                   allocated, delivered, environ, created>>

\* -------------------------------------------------------- get_stock_level

\* District 11 does not exist.
StockLevelDistricts == {1, 3, 11}
StockLevelThresholds == {4, 5}

GetStockLevelCall(c) ==
    /\ CanCall(c)
    /\ \E d \in StockLevelDistricts, threshold \in StockLevelThresholds :
         Begin(c, [IdleCall EXCEPT !.op = "get_stock_level", !.pc = "next",
                                   !.warehouse_id = 1, !.district_id = d,
                                   !.threshold = threshold])
    /\ UNCHANGED <<db, connection, autocommit, tx, txn, allocated, delivered,
                   environ, created>>

\* Read the district's next order id.
StockLevelNext(c) ==
    /\ call[c].op = "get_stock_level" /\ call[c].pc = "next"
    /\ \E fail \in BOOLEAN :
         LET f == call[c]
             o == ExecuteQuery(c, Stmt("sl_next_order_query",
                      <<f.warehouse_id, f.district_id>>), fail)
         IN  /\ db' = o.db
             /\ tx' = [tx EXCEPT ![c] = o.tx]
             /\ log' = [log EXCEPT ![c] = o.log]
             /\ IF o.raised
                THEN Finish(c, Caught(f), FALSE, NoError, Failure(o.err))
                ELSE IF o.rows = << >>
                THEN Finish(c, f, FALSE, NoError,
                       Failure(Error("District not found", 0)))
                ELSE /\ call' = [call EXCEPT ![c] =
                           [f EXCEPT !.pc = "count",
                              !.next_order_id = o.rows[1].d_next_o_id]]
                     /\ UNCHANGED <<ret, burned>>
    /\ UNCHANGED <<connection, autocommit, txn, pre, ncalls, allocated,
                   delivered, environ, created>>

\* Count the distinct low-stock items of the recent orders and return.
StockLevelCount(c) ==
    /\ call[c].op = "get_stock_level" /\ call[c].pc = "count"
    /\ \E fail \in BOOLEAN :
         LET f == call[c]
             o == ExecuteQuery(c, Stmt("stock_level_query",
                      <<f.warehouse_id, f.district_id, f.next_order_id,
                        f.next_order_id, f.threshold>>), fail)
             low_stock_count ==
                 IF o.rows # << >> THEN o.rows[1].low_stock_count ELSE 0
         IN  /\ db' = o.db
             /\ tx' = [tx EXCEPT ![c] = o.tx]
             /\ log' = [log EXCEPT ![c] = o.log]
             /\ IF o.raised
                THEN Finish(c, Caught(f), FALSE, NoError, Failure(o.err))
                ELSE Finish(c, f, FALSE, NoError,
                       [success |-> TRUE, warehouse_id |-> f.warehouse_id,
                        district_id |-> f.district_id,
                        threshold |-> f.threshold,
                        low_stock_count |-> low_stock_count])
    /\ UNCHANGED <<connection, autocommit, txn, pre, ncalls, allocated,
                   delivered, environ, created>>

\* -------------------------------------------------------- test_connection

\* cursor.execute("SELECT 1 as test_value")
TestQuery == Stmt("test_query", << >>)

\* What the backend may answer to the round trip: the row asked for, no
\* row, or a row with another value.  The answer is not the program's to
\* decide; the code checks it.
TestAnswers(D) ==
    {Returned(TestQuery, D), << >>, <<[test_value |-> 0]>>}

\* result = cursor.fetchone()
Fetchone(rows) == IF rows = << >> THEN None ELSE Some(rows[1])

\* Mutant: any row counts as a successful round trip.
AnyRowPasses(result) == result # None

\* return result is not None and result['test_value'] == 1
TestResult(result) == result # None /\ result[1].test_value = 1

\* test_connection(): False without a handle or when the round trip raises.
TestConnection(c) ==
    /\ CanCall(c)
    /\ \E fail \in BOOLEAN, rows \in TestAnswers(View(c)) :
         LET raised == connection[c] # "none" /\ fail
             result == IF connection[c] = "none" \/ fail THEN None
                       ELSE Fetchone(rows)
             frame == [IdleCall EXCEPT !.op = "test_connection",
                                       !.result = result,
                                       !.step_raised = raised]
         IN  /\ log' = [log EXCEPT ![c] =
                          IF connection[c] = "none" THEN << >>
                          ELSE <<Event("execute", TestQuery)>>]
             /\ ret' = [ret EXCEPT ![c] =
                          [op |-> "test_connection", frame |-> frame,
                           raised |-> FALSE, err |-> NoError,
                           result |-> IF connection[c] = "none" \/ fail
                                      THEN FALSE ELSE TestResult(result)]]
    /\ pre' = [pre EXCEPT ![c] = db]
    /\ ncalls' = ncalls + 1
    /\ UNCHANGED <<db, connection, autocommit, tx, call, txn, burned,
                   allocated, delivered, environ, created>>

\* ------------------------------------------------------- close_connection

\* Mutant: the handle is cleared only when the driver's close succeeds.
HandleKeptOnFailure(handle, raised) ==
    IF raised THEN handle ELSE "none"

\* self.connection = None, after close() and in the except handler.
HandleAfterClose(handle, raised) == "none"

\* if self.connection: self.connection.close() -- which may raise; the
\* handler swallows the error.  Without a handle nothing is called.
CloseConnection(c) ==
    /\ CanCall(c)
    /\ \E fail \in BOOLEAN :
         LET raised == connection[c] # "none" /\ fail IN
         /\ connection' = [connection EXCEPT ![c] =
                             HandleAfterClose(@, raised)]
         /\ log' = [log EXCEPT ![c] =
                      IF connection[c] = "none" THEN << >>
                      ELSE <<Event("close", NoStmt)>>]
         /\ ret' = [ret EXCEPT ![c] =
                      [op |-> "close_connection",
                       frame |-> [IdleCall EXCEPT !.op = "close_connection",
                                                  !.step_raised = raised],
                       raised |-> FALSE, err |-> NoError, result |-> << >>]]
    /\ tx' = [tx EXCEPT ![c] = << >>]
    /\ pre' = [pre EXCEPT ![c] = db]
    /\ ncalls' = ncalls + 1
    /\ UNCHANGED <<db, autocommit, call, txn, burned, allocated, delivered,
                   environ, created>>

\* ---------------------------------------------------------- specification

Step(c) ==
    \/ ExecuteQueryCall(c)
    \/ ExecuteInTransactionCall(c)
    \/ TxnBegin(c)
    \/ TxnStatement(c)
    \/ TxnCommit(c)
    \/ TxnRollback(c)
    \/ ExecuteInTransactionReturn(c)
    \/ ExecuteNewOrderCall(c)
    \/ NewOrderAllocate(c)
    \/ NewOrderItem(c)
    \/ NewOrderBatch(c)
    \/ NewOrderReturn(c)
    \/ ExecutePaymentCall(c)
    \/ PaymentReturn(c)
    \/ ExecuteDeliveryCall(c)
    \/ DeliveryFind(c)
    \/ DeliveryAfterBatch(c)
    \/ DeliveryReturn(c)
    \/ GetStockLevelCall(c)
    \/ StockLevelNext(c)
    \/ StockLevelCount(c)
    \/ TestConnection(c)
    \/ CloseConnection(c)

\* One connector, its calls issued one after the other.
Next == \E c \in Serial : Step(c)

Spec == Init /\ [][Next]_vars

\* ------------------------------------------------------------ concurrency

\* What concurrent callers order: one line, all in district 3.
RaceDistricts == {3}
RaceItemLists == {<<[item_id |-> 1, quantity |-> 1]>>}

ConcurrentNewOrderCall(c) == NewOrderCallWith(c, RaceDistricts, RaceItemLists)

\* The steps of a New Order call of connector c, its batch included.
NewOrderStep(c) ==
    \/ ConcurrentNewOrderCall(c)
    \/ NewOrderAllocate(c)
    \/ NewOrderItem(c)
    \/ NewOrderBatch(c)
    \/ TxnBegin(c)
    \/ TxnStatement(c)
    \/ TxnCommit(c)
    \/ TxnRollback(c)
    \/ NewOrderReturn(c)

\* Separate connectors, one per caller, running New Order calls whose
\* statements interleave in any order.
NewOrderNext == \E c \in Connectors : NewOrderStep(c)

NewOrderSpec == Init /\ [][NewOrderNext]_vars

\* The steps of a Delivery call of connector c, its batches included.
DeliveryStep(c) ==
    \/ ExecuteDeliveryCall(c)
    \/ DeliveryFind(c)
    \/ TxnBegin(c)
    \/ TxnStatement(c)
    \/ TxnCommit(c)
    \/ TxnRollback(c)
    \/ DeliveryAfterBatch(c)
    \/ DeliveryReturn(c)

\* Separate connectors, one per caller, running Delivery calls on the
\* same warehouse whose statements interleave in any order.
DeliveryNext == \E c \in Connectors : DeliveryStep(c)

DeliverySpec == Init /\ [][DeliveryNext]_vars

\* ------------------------------------------------------ connector factory

\* Values DB_PROVIDER and the provider argument take.
ProviderNames == {"", "cockroach", "cockroachdb", "CockroachDB", "postgres"}

\* Values COCKROACH_CONNECTION_STRING takes.
ConnectionStrings == {"", "postgresql://"}

\* Environments a factory function may be called in; a setting may be unset.
Environments ==
    [DB_PROVIDER : {None} \cup {Some(n) : n \in ProviderNames},
     COCKROACH_CONNECTION_STRING :
         {None} \cup {Some(u) : u \in ConnectionStrings}]

\* os.getenv(name, default)
Getenv(env, name, default) ==
    IF env[name] = None THEN default ELSE env[name][1]

\* provider.lower()
Lower(name) == IF name = "CockroachDB" THEN "cockroachdb" ELSE name

\* Mutant: every named provider is taken for a supported one.
AnyNamedProvider(provider) == provider # ""

\* provider == "cockroach" or provider == "cockroachdb"
IsSupported(provider) == provider \in {"cockroach", "cockroachdb"}

\* CockroachConnector(): needs the connection string, then connects;
\* fail: psycopg2.connect raises.
Construct(env, fail) ==
    IF Getenv(env, "COCKROACH_CONNECTION_STRING", "") = ""
    THEN [raised |-> TRUE,
          err |-> Error("COCKROACH_CONNECTION_STRING environment variable is required", 0),
          connector |-> None]
    ELSE IF fail
    THEN [raised |-> TRUE, err |-> Error("connect", 0), connector |-> None]
    ELSE [raised |-> FALSE, err |-> NoError,
          connector |-> Some([connection |-> "open", autocommit |-> TRUE])]

\* try: return CockroachConnector()
\* except Exception as e: raise RuntimeError("Failed to create ...")
Wrapped(fn, provider, o) ==
    [fn |-> fn, provider |-> provider, raised |-> o.raised,
     err |-> IF o.raised
             THEN Error("Failed to create CockroachDB connector", 0)
             ELSE NoError,
     constructed |-> TRUE, connector |-> o.connector]

\* raise ValueError(message): no connector was constructed.
Refused(fn, provider, message) ==
    [fn |-> fn, provider |-> provider, raised |-> TRUE,
     err |-> Error(message, 0), constructed |-> FALSE, connector |-> None]

\* create_study_connector(): the provider named by DB_PROVIDER, or the
\* one detected from the connection string when none is named.
CreateStudyConnectorOutcome(env, fail) ==
    LET fn == "create_study_connector"
        given == Getenv(env, "DB_PROVIDER", "")
        provider == Lower(given)
    IN  IF IsSupported(provider)
        THEN Wrapped(fn, given, Construct(env, fail))
        ELSE IF provider = ""
                /\ Getenv(env, "COCKROACH_CONNECTION_STRING", "") # ""
        THEN Wrapped(fn, given, Construct(env, fail))
        ELSE Refused(fn, given, "No valid database provider configured")

\* create_connector(provider)
CreateConnectorOutcome(given, env, fail) ==
    LET fn == "create_connector"
        provider == Lower(given)
    IN  IF IsSupported(provider)
        THEN Wrapped(fn, given, Construct(env, fail))
        ELSE Refused(fn, given, "Unsupported database provider")

CreateStudyConnector ==
    /\ \E fail \in BOOLEAN :
         created' = CreateStudyConnectorOutcome(environ, fail)
    /\ UNCHANGED <<db, connection, autocommit, tx, call, txn, log, pre, ret,
                   burned, ncalls, allocated, delivered, environ>>

CreateConnector ==
    /\ \E provider \in ProviderNames, fail \in BOOLEAN :
         created' = CreateConnectorOutcome(provider, environ, fail)
    /\ UNCHANGED <<db, connection, autocommit, tx, call, txn, log, pre, ret,
                   burned, ncalls, allocated, delivered, environ>>

\* Before any connector exists: the process environment is any of the
\* environments, and the factory functions are called.
FactoryInit ==
    /\ db = InitDB
    /\ connection = [c \in Connectors |-> "none"]
    /\ autocommit = [c \in Connectors |-> TRUE]
    /\ tx = [c \in Connectors |-> << >>]
    /\ call = [c \in Connectors |-> IdleCall]
    /\ txn = [c \in Connectors |-> IdleTxn]
    /\ log = [c \in Connectors |-> << >>]
    /\ pre = [c \in Connectors |-> InitDB]
    /\ ret = [c \in Connectors |-> NoRet]
    /\ burned = {}
    /\ ncalls = 0
    /\ allocated = << >>
    /\ delivered = << >>
    /\ environ \in Environments
    /\ created = NoCreation

FactoryNext == CreateStudyConnector \/ CreateConnector

FactorySpec == FactoryInit /\ [][FactoryNext]_vars

\* ----------------------------------------------------------- properties

\* The driver calls issued by connector c's current batch.
TxnLog(c) == SubSeq(log[c], txn[c].from + 1, Len(log[c]))

\* The first n statements of a batch as execute events, in order.
Executes(operations, n) ==
    [k \in 1..n |-> Event("execute", operations[k])]

\* The batch of connector c raised after the connection check passed.
TxnFailed(c) == txn[c].pc = "raised" /\ txn[c].err # NoConnectionError

\* C1: when a batch on an open connection has raised (a statement or the
\* commit failed), the database equals the database before the call and
\* nothing of the batch is left pending on the connection.
C1_FailedBatchLeavesNoEffect ==
    \A c \in Connectors :
        TxnFailed(c) => db = txn[c].pre /\ tx[c] = << >>

\* A batch failed at its second or a later statement, after statements
\* that change the database had been executed.
C1_Witness ==
    \E c \in Connectors :
        /\ TxnFailed(c)
        /\ txn[c].err.kind = "execute" /\ txn[c].err.idx > 1
        /\ ApplyAll(SubSeq(txn[c].operations, 1, txn[c].err.idx - 1),
                    txn[c].pre) # txn[c].pre

\* C2: a batch whose statements all execute runs them in the given order
\* inside one transaction, issues exactly one commit after the last one,
\* and its effects are all visible on return; until the commit the
\* committed database is the one before the call (no prefix is visible).
C2_SuccessfulBatchCommitsOnce ==
    \A c \in Connectors :
        LET t == txn[c] IN
        /\ t.pc = "returned" =>
             /\ TxnLog(c) = Executes(t.operations, Len(t.operations))
                              \o <<Event("commit", NoStmt)>>
             /\ db = ApplyAll(t.operations, t.pre)
             /\ tx[c] = << >>
        /\ t.pc \in {"stmt", "rollback"} => db = t.pre
        /\ t.pc = "stmt" =>
             /\ tx[c] = SubSeq(t.operations, 1, t.i - 1)
             /\ TxnLog(c) = Executes(t.operations, t.i - 1)

\* A batch of at least two statements has committed and changed the database.
C2_Witness ==
    \E c \in Connectors :
        /\ txn[c].pc = "returned"
        /\ Len(txn[c].operations) >= 2
        /\ db # txn[c].pre

\* C3: when a batch on an open connection ends, by return or by raise, the
\* autocommit flag equals its value before the call; outside a running
\* batch the flag is True.
C3_AutocommitRestored ==
    \A c \in Connectors :
        /\ (TxnEnded(c) /\ txn[c].err # NoConnectionError) =>
             autocommit[c] = txn[c].original_autocommit
        /\ txn[c].pc \notin {"stmt", "rollback"} => autocommit[c] = TRUE

\* A batch has raised because its rollback itself failed.
C3_Witness ==
    \E c \in Connectors :
        /\ txn[c].pc = "raised" /\ txn[c].rollback_raised
        /\ autocommit[c] = TRUE

\* C4: every statement of a committed batch has its rows collected by the
\* rule of execute_query (rows for SELECT or RETURNING, none otherwise),
\* one entry per statement in batch order.
C4_BatchCollectsLikeQuery ==
    \A c \in Connectors :
        LET t == txn[c] IN
        t.pc = "returned" =>
          /\ Len(t.results) = Len(t.operations)
          /\ \A k \in 1..Len(t.operations) :
               t.results[k] = IF FetchesInQuery(t.operations[k].q)
                              THEN t.produced[k] ELSE << >>

\* A statement of connector c's batch raised (the commit was not reached).
StatementFailed(c) == TxnFailed(c) /\ txn[c].i <= Len(txn[c].operations)

\* The driver calls of a batch whose statement i raised: the statements up
\* to i in order, then one rollback, and no commit.
StopsAtFailure(c) ==
    TxnLog(c) = Executes(txn[c].operations, txn[c].i)
                  \o <<Event("rollback", NoStmt)>>

\* C5 as stated: when a statement of a batch raises, no later statement
\* and no commit is issued, one rollback is issued, and the error raised
\* is the error of that statement.
C5_RaisesStatementError ==
    \A c \in Connectors :
        StatementFailed(c) =>
          /\ StopsAtFailure(c)
          /\ txn[c].err = Error("execute", txn[c].i)

\* C5 amended: as above, but the error raised is the statement's error
\* only when the rollback succeeds; when the rollback raises, the
\* rollback's error is raised instead.
C5_RaisesStatementErrorUnlessRollbackFails ==
    \A c \in Connectors :
        StatementFailed(c) =>
          /\ StopsAtFailure(c)
          /\ txn[c].err = IF txn[c].rollback_raised
                          THEN Error("rollback", 0)
                          ELSE Error("execute", txn[c].i)

\* A statement that is not the last of its batch raised and was rolled back.
C5_Witness ==
    \E c \in Connectors :
        /\ StatementFailed(c)
        /\ txn[c].i < Len(txn[c].operations)
        /\ ~txn[c].rollback_raised

Profiles ==
    {"execute_new_order", "execute_payment", "execute_delivery",
     "get_stock_level"}

\* C6 as stated: no profile raises, and when a step inside a profile raised
\* the profile returns success False with an error message.
C6_ProfilesReportFailure ==
    \A c \in Connectors :
        ret[c].op \in Profiles =>
          /\ ~ret[c].raised
          /\ ret[c].frame.step_raised =>
               /\ ~ret[c].result.success
               /\ ret[c].result.error # NoError

\* C6 amended: no profile raises; when a step raised inside New Order,
\* Payment or Stock Level the profile returns success False with the
\* error; Delivery skips the district and returns success True.
C6_ProfilesReportFailureExceptDelivery ==
    \A c \in Connectors :
        ret[c].op \in Profiles =>
          /\ ~ret[c].raised
          /\ (ret[c].op # "execute_delivery" /\ ret[c].frame.step_raised) =>
               /\ ~ret[c].result.success
               /\ ret[c].result.error # NoError
          /\ ret[c].op = "execute_delivery" => ret[c].result.success

\* A profile other than Delivery was called on a closed connection and
\* returned the failure.
C6_Witness ==
    \E c \in Connectors :
        /\ ret[c].op \in Profiles \ {"execute_delivery"}
        /\ ret[c].frame.step_raised
        /\ connection[c] = "none"
        /\ ret[c].result.error = NoConnectionError

\* The district row (w, d) of database D.
DistrictRow(D, w, d) ==
    CHOOSE r \in D.district : r.d_w_id = w /\ r.d_id = d

\* C7: a successful New Order returns the district's d_next_o_id of before
\* the call, leaves the counter one higher, and inserts exactly one order
\* header and one new-order marker, both with that order id.
C7_OrderIdIsOldCounter ==
    \A c \in Connectors :
        (ret[c].op = "execute_new_order" /\ ret[c].result.success) =>
          LET f == ret[c].frame
              before == DistrictRow(pre[c], f.warehouse_id,
                                    f.district_id).d_next_o_id
          IN  /\ ret[c].result.order_id = before
              /\ DistrictRow(db, f.warehouse_id,
                             f.district_id).d_next_o_id = before + 1
              /\ {<<o.o_w_id, o.o_d_id, o.o_id>> :
                    o \in db.order \ pre[c].order}
                   = {<<f.warehouse_id, f.district_id, before>>}
              /\ db.new_order \ pre[c].new_order
                   = {[no_o_id |-> before, no_d_id |-> f.district_id,
                       no_w_id |-> f.warehouse_id]}

\* A New Order with at least one line has succeeded.
C7_Witness ==
    \E c \in Connectors :
        /\ ret[c].op = "execute_new_order" /\ ret[c].result.success
        /\ Len(ret[c].result.order_lines) >= 1

\* Rows of database D that carry order id o of district (w, d).
RowsOfOrder(D, w, d, o) ==
    {r \in D.order : r.o_w_id = w /\ r.o_d_id = d /\ r.o_id = o}
    \cup {r \in D.new_order : r.no_w_id = w /\ r.no_d_id = d /\ r.no_o_id = o}
    \cup {r \in D.order_line :
            r.ol_w_id = w /\ r.ol_d_id = d /\ r.ol_o_id = o}

\* C8: when New Order fails after the allocation (item not found, or the
\* batch fails), the district counter stays incremented while orders,
\* markers, order lines and stock are as before the call, and no row of
\* the database ever carries an order id lost this way.
C8_AllocationSurvivesFailure ==
    /\ \A c \in Connectors :
         (/\ ret[c].op = "execute_new_order"
          /\ ~ret[c].result.success
          /\ ret[c].frame.pc \in {"items", "batch"}) =>
           LET f == ret[c].frame
               before == DistrictRow(pre[c], f.warehouse_id,
                                     f.district_id).d_next_o_id
           IN  /\ f.order_id = before
               /\ DistrictRow(db, f.warehouse_id,
                              f.district_id).d_next_o_id = before + 1
               /\ db.order = pre[c].order
               /\ db.new_order = pre[c].new_order
               /\ db.order_line = pre[c].order_line
               /\ db.stock = pre[c].stock
    /\ \A b \in burned : RowsOfOrder(db, b[1], b[2], b[3]) = {}

\* New Order failed in its batch after the order header, the marker and a
\* stock update had been executed in the transaction.
C8_Witness ==
    \E c \in Connectors :
        /\ ret[c].op = "execute_new_order" /\ ~ret[c].result.success
        /\ ret[c].frame.pc = "batch"
        /\ ret[c].result.error.kind = "execute"
        /\ ret[c].result.error.idx > 3
        /\ burned # {}

\* The customer row (w, d, id) of database D.
CustomerRows(D, w, d, id) ==
    {r \in D.customer : r.c_w_id = w /\ r.c_d_id = d /\ r.c_id = id}

\* C9: a successful Payment for an existing customer reports the balance
\* after the payment: the balance before the call minus the amount.
C9_PaymentReportsBalance ==
    \A c \in Connectors :
        (ret[c].op = "execute_payment" /\ ret[c].result.success) =>
          LET f == ret[c].frame IN
          \A r \in CustomerRows(pre[c], f.warehouse_id, f.district_id,
                                f.customer_id) :
              ret[c].result.customer_balance = Some(r.c_balance - f.amount)

\* Markers of district (w, d) in database D.
Pending(D, w, d) == {r \in D.new_order : r.no_w_id = w /\ r.no_d_id = d}

\* The oldest pending order id of district (w, d) in database D.
Oldest(D, w, d) ==
    CHOOSE o \in {r.no_o_id : r \in Pending(D, w, d)} :
        \A r \in Pending(D, w, d) : o <= r.no_o_id

\* Districts whose oldest pending order of before the call was delivered
\* by a committed batch: its marker is gone.
DeliveredDistricts(c, w) ==
    {d \in 1..DistrictCount :
        /\ Pending(pre[c], w, d) # {}
        /\ \A r \in Pending(db, w, d) : r.no_o_id # Oldest(pre[c], w, d)}

\* The entry Delivery is to report for district (w, d).
DeliveryEntry(c, w, d) ==
    LET o == Oldest(pre[c], w, d)
        header == CHOOSE r \in pre[c].order :
                      r.o_w_id = w /\ r.o_d_id = d /\ r.o_id = o
        lines == SeqBy({r \in pre[c].order_line :
                          r.ol_w_id = w /\ r.ol_d_id = d /\ r.ol_o_id = o},
                       "ol_number")
    IN  [district_id |-> d, order_id |-> o, customer_id |-> header.o_c_id,
         total_amount |->
             SumSeq([k \in 1..Len(lines) |-> lines[k].ol_amount])]

\* C10: delivered_orders holds one entry per district whose pending order
\* was delivered by a committed batch, and orders_delivered counts them.
C10_DeliveryReportsOrders ==
    \A c \in Connectors :
        ret[c].op = "execute_delivery" =>
          LET w == ret[c].frame.warehouse_id
              r == ret[c].result
          IN  /\ Range(r.delivered_orders)
                   = {DeliveryEntry(c, w, d) : d \in DeliveredDistricts(c, w)}
              /\ Len(r.delivered_orders)
                   = Cardinality(DeliveredDistricts(c, w))
              /\ r.orders_delivered = Cardinality(DeliveredDistricts(c, w))

\* C11: for every district whose batch committed during a Delivery call,
\* the customer of the delivered order has its balance increased by the sum
\* of the order's line amounts and its delivery count increased by one, by
\* a customer update issued through execute_query after the batch.
C11_DeliveryCreditsCustomer ==
    \A c \in Connectors :
        ret[c].op = "execute_delivery" =>
          LET w == ret[c].frame.warehouse_id IN
          \A d \in DeliveredDistricts(c, w) :
              LET e == DeliveryEntry(c, w, d) IN
              /\ \E k \in 1..Len(log[c]) :
                   log[c][k] = Event("execute",
                       Stmt("delivery_update_customer_query",
                            <<e.total_amount, w, d, e.customer_id>>))
              /\ \A r \in CustomerRows(pre[c], w, d, e.customer_id) :
                   \E r2 \in CustomerRows(db, w, d, e.customer_id) :
                       /\ r2.c_balance = r.c_balance + e.total_amount
                       /\ r2.c_delivery_cnt = r.c_delivery_cnt + 1

\* The lookup of district d's oldest pending order, as a driver call.
FindEvent(w, d) == Event("execute", Stmt("find_order_query", <<w, d>>))

IsFind(e) == e.stmt.q = "find_order_query"

\* The district a Delivery write statement is addressed to (0: not a write).
WrittenDistrict(s) ==
    CASE s.q = "delete_new_order_query" -> s.p[2]
      [] s.q = "update_order_query" -> s.p[3]
      [] s.q = "update_order_lines_query" -> s.p[2]
      [] s.q = "delivery_update_customer_query" -> s.p[3]
      [] OTHER -> 0

\* C12: a Delivery call on an open connection looks up districts 1 to 10
\* once each in ascending order, whatever happened in earlier districts;
\* while it runs the lookups issued are those of the districts reached so
\* far.  A district without a pending marker gets no write and no entry
\* in delivered_orders.
C12_EveryDistrictAttempted ==
    \A c \in Connectors :
        /\ (call[c].op = "execute_delivery" /\ connection[c] = "open") =>
             SelectSeq(log[c], IsFind)
               = [d \in 1..(IF call[c].pc = "find"
                            THEN call[c].district_id - 1
                            ELSE call[c].district_id)
                    |-> FindEvent(call[c].warehouse_id, d)]
        /\ ret[c].op = "execute_delivery" =>
             LET w == ret[c].frame.warehouse_id IN
             /\ ret[c].frame.district_id = DistrictCount + 1
             /\ connection[c] = "open" =>
                  SelectSeq(log[c], IsFind)
                    = [d \in 1..DistrictCount |-> FindEvent(w, d)]
             /\ \A d \in 1..DistrictCount :
                  Pending(pre[c], w, d) = {} =>
                    /\ \A k \in 1..Len(log[c]) :
                         WrittenDistrict(log[c][k].stmt) # d
                    /\ \A k \in 1..Len(ret[c].result.delivered_orders) :
                         ret[c].result.delivered_orders[k].district_id # d

\* A Delivery call has returned after the batch of one district was rolled
\* back and the lookups of later districts were still issued.
C12_Witness ==
    \E c \in Connectors :
        /\ ret[c].op = "execute_delivery" /\ ret[c].frame.step_raised
        /\ \E j, k \in 1..Len(log[c]) :
             /\ j < k
             /\ log[c][j].ev = "rollback"
             /\ log[c][k] = FindEvent(ret[c].frame.warehouse_id, DistrictCount)

\* Order lines of district (w, d) in database D whose order id lies in
\* the window [n - 20, n).
RecentLines(D, w, d, n) ==
    {ol \in D.order_line :
        /\ ol.ol_w_id = w /\ ol.ol_d_id = d
        /\ n - StockLevelWindow <= ol.ol_o_id /\ ol.ol_o_id < n}

\* Such a line's item is below the threshold in the line's supply warehouse.
BelowThreshold(D, ol, threshold) ==
    \E st \in D.stock :
        /\ st.s_i_id = ol.ol_i_id /\ st.s_w_id = ol.ol_supply_w_id
        /\ st.s_quantity < threshold

\* C13: Stock Level changes nothing in the database; for an existing
\* district with next order id N it succeeds unless a statement raised,
\* and then returns the number of distinct items of the order lines with
\* order id in [N - 20, N) whose stock is below the threshold.
C13_StockLevelCountsDistinctItems ==
    \A c \in Connectors :
        ret[c].op = "get_stock_level" =>
          LET f == ret[c].frame
              districts == {r \in pre[c].district :
                              r.d_w_id = f.warehouse_id
                              /\ r.d_id = f.district_id}
          IN  /\ db = pre[c] /\ tx[c] = << >>
              /\ ret[c].result.success <=>
                   (districts # {} /\ ~f.step_raised)
              /\ \A r \in districts :
                   ret[c].result.success =>
                     ret[c].result.low_stock_count =
                       Cardinality(
                         {ol.ol_i_id : ol \in
                            {ol \in RecentLines(pre[c], f.warehouse_id,
                                       f.district_id, r.d_next_o_id) :
                               BelowThreshold(pre[c], ol, f.threshold)}})

\* Stock Level returned 1 for a district in which two order lines inside
\* the window carry the same low-stock item and a line of another low-stock
\* item lies outside the window.
C13_Witness ==
    \E c \in Connectors :
        /\ ret[c].op = "get_stock_level" /\ ret[c].result.success
        /\ ret[c].result.low_stock_count = 1
        /\ LET f == ret[c].frame
               n == DistrictRow(pre[c], f.warehouse_id,
                                f.district_id).d_next_o_id
           IN  /\ \E a, b \in RecentLines(pre[c], f.warehouse_id,
                                          f.district_id, n) :
                    /\ a # b /\ a.ol_i_id = b.ol_i_id
                    /\ BelowThreshold(pre[c], a, f.threshold)
               /\ \E ol \in pre[c].order_line :
                    /\ ol.ol_w_id = f.warehouse_id
                    /\ ol.ol_d_id = f.district_id
                    /\ ol.ol_o_id < n - StockLevelWindow
                    /\ BelowThreshold(pre[c], ol, f.threshold)

\* Connector c has just completed a close_connection call.
ClosedBy(c) == ret'[c].op = "close_connection" /\ ncalls' = ncalls + 1

\* C14: close_connection never raises and leaves the handle None, also
\* when the driver's close fails; called on a connector whose handle is
\* already None it issues no driver call and changes no connector state.
C14_CloseIsIdempotent ==
    /\ [](\A c \in Connectors :
            ret[c].op = "close_connection" =>
              ~ret[c].raised /\ connection[c] = "none")
    /\ [][\A c \in Connectors :
            (ClosedBy(c) /\ connection[c] = "none") =>
              /\ log'[c] = << >>
              /\ UNCHANGED <<db, connection, autocommit, tx, call, txn>>]_vars

\* The driver's close raised inside close_connection and the handle is None.
C14_Witness ==
    \E c \in Connectors :
        /\ ret[c].op = "close_connection" /\ ret[c].frame.step_raised
        /\ log[c] = <<Event("close", NoStmt)>>
        /\ connection[c] = "none"

\* Connector c has just completed a test_connection call.
TestedBy(c) == ret'[c].op = "test_connection" /\ ncalls' = ncalls + 1

\* C15: test_connection never raises; it returns True exactly when the
\* handle is present, the round trip did not raise and the row received
\* carries the value 1, and False otherwise; it leaves the handle, the
\* autocommit flag and the database as they were.
C15_TestConnectionNeverRaises ==
    /\ [](\A c \in Connectors :
            ret[c].op = "test_connection" =>
              /\ ~ret[c].raised
              /\ ret[c].result \in BOOLEAN
              /\ ret[c].result <=>
                   /\ connection[c] = "open"
                   /\ ~ret[c].frame.step_raised
                   /\ ret[c].frame.result = Some([test_value |-> 1]))
    /\ [][\A c \in Connectors :
            TestedBy(c) =>
              UNCHANGED <<db, connection, autocommit, tx, call, txn>>]_vars

\* The round trip raised on an open connection and False was returned.
C15_Witness ==
    \E c \in Connectors :
        /\ ret[c].op = "test_connection" /\ ret[c].frame.step_raised
        /\ connection[c] = "open"
        /\ ret[c].result = FALSE

\* C16: without a connection handle, execute_query and
\* execute_in_transaction raise the no-connection error, issue no driver
\* call and leave database, transaction and autocommit flag as they were;
\* on an open connection execute_query issues its statement exactly once,
\* and when the statement raises the call raises that error.
C16_NoConnectionNoStatement ==
    \A c \in Connectors :
        /\ (ret[c].op \in {"execute_query", "execute_in_transaction"}
            /\ connection[c] = "none") =>
             /\ ret[c].raised /\ ret[c].err = NoConnectionError
             /\ log[c] = << >>
             /\ db = pre[c] /\ tx[c] = << >> /\ autocommit[c] = TRUE
        /\ (call[c].op = "execute_in_transaction"
            /\ connection[c] = "none") =>
             /\ txn[c].pc \in {"begin", "raised"}
             /\ log[c] = << >> /\ db = pre[c] /\ autocommit[c] = TRUE
        /\ (ret[c].op = "execute_query" /\ connection[c] = "open") =>
             /\ log[c] = <<Event("execute", ret[c].frame.operations[1])>>
             /\ ret[c].raised <=> ret[c].frame.step_raised
             /\ ret[c].raised =>
                  ret[c].err = Error("execute", 0) /\ db = pre[c]

\* A batch with statements was passed to a connector without a handle and
\* the call raised.
C16_Witness ==
    \E c \in Connectors :
        /\ ret[c].op = "execute_in_transaction" /\ connection[c] = "none"
        /\ ret[c].frame.operations # << >>
        /\ ret[c].raised

\* The factory call recorded in created was given a provider name (from
\* DB_PROVIDER or as argument) that is absent, empty or, compared without
\* regard to case, not a supported name.
ProviderRejected ==
    /\ created.fn # "none"
    /\ Lower(created.provider) \notin {"cockroach", "cockroachdb"}

\* The factory call failed with the error that names the configuration
\* problem, and no connector was constructed.
FailedDescriptively ==
    /\ created.raised
    /\ created.err \in {Error("No valid database provider configured", 0),
                        Error("Unsupported database provider", 0)}
    /\ ~created.constructed /\ created.connector = None

\* C17 as stated: both factory functions fail descriptively, constructing
\* no connector, for every provider value that is absent, empty or not a
\* supported name, whatever the other settings.
C17_FactoryRejectsUnsupported ==
    ProviderRejected => FailedDescriptively

\* create_study_connector was called with no provider named while the
\* connection string is set.
AutoDetected ==
    /\ created.fn = "create_study_connector"
    /\ created.provider = ""
    /\ Getenv(environ, "COCKROACH_CONNECTION_STRING", "") # ""

\* C17 amended: as stated, except that create_study_connector with an
\* absent or empty provider and a connection string set constructs the
\* CockroachDB connector instead of failing.
C17_FactoryRejectsUnlessAutoDetected ==
    /\ (ProviderRejected /\ ~AutoDetected) => FailedDescriptively
    /\ AutoDetected =>
         /\ created.constructed
         /\ created.raised <=> created.connector = None
         /\ created.raised =>
              created.err = Error("Failed to create CockroachDB connector", 0)

\* create_study_connector was called with DB_PROVIDER naming an
\* unsupported family while the connection string is set, and failed.
C17_Witness ==
    /\ created.fn = "create_study_connector"
    /\ environ.DB_PROVIDER = Some("postgres")
    /\ environ.COCKROACH_CONNECTION_STRING = Some("postgresql://")
    /\ created.raised

\* The price of item i in database D.
PriceOf(D, i) == (CHOOSE r \in D.item : r.i_id = i).i_price

\* C18: a successful New Order with items of quantities q1..qn and prices
\* p1..pn returns total_amount = q1*p1 + ... + qn*pn and n order lines, the
\* k-th with number k, the k-th item and amount qk*pk; the order lines the
\* batch inserted carry the returned order id and the same numbers, items
\* and amounts.
C18_TotalIsSumOfLineAmounts ==
    \A c \in Connectors :
        (ret[c].op = "execute_new_order" /\ ret[c].result.success) =>
          LET items == ret[c].frame.items
              r == ret[c].result
              n == Len(items)
              amount(k) ==
                  items[k].quantity * PriceOf(pre[c], items[k].item_id)
          IN  /\ r.total_amount = SumSeq([k \in 1..n |-> amount(k)])
              /\ Len(r.order_lines) = n
              /\ \A k \in 1..n :
                   /\ r.order_lines[k].ol_number = k
                   /\ r.order_lines[k].ol_i_id = items[k].item_id
                   /\ r.order_lines[k].ol_quantity = items[k].quantity
                   /\ r.order_lines[k].ol_amount = amount(k)
              /\ {<<ol.ol_o_id, ol.ol_number, ol.ol_i_id, ol.ol_amount>> :
                    ol \in db.order_line \ pre[c].order_line}
                   = {<<r.order_id, k, items[k].item_id, amount(k)>> :
                        k \in 1..n}

\* A New Order of two lines with different prices, one of quantity 5 and
\* one of quantity 2, has succeeded.
C18_Witness ==
    \E c \in Connectors :
        /\ ret[c].op = "execute_new_order" /\ ret[c].result.success
        /\ Len(ret[c].result.order_lines) = 2
        /\ ret[c].result.order_lines[1].ol_quantity = 5
        /\ ret[c].result.order_lines[2].ol_quantity = 2
        /\ ret[c].result.order_lines[1].ol_amount
             # ret[c].result.order_lines[2].ol_amount

\* Allocation j and allocation k were made for the same district.
SameDistrict(j, k) ==
    /\ allocated[j].w_id = allocated[k].w_id
    /\ allocated[j].d_id = allocated[k].d_id

\* Connector c is inside a New Order call that holds an order id.
HoldsOrderId(c) ==
    call[c].op = "execute_new_order" /\ call[c].pc \in {"items", "batch"}

\* C19: however New Order calls of separate connectors interleave, the
\* order ids obtained in a district are pairwise different and are the
\* consecutive values of the district counter, starting with its initial
\* value; calls running at the same time hold different ids, and every
\* order header inserted carries an id obtained by one allocation.
C19_ConcurrentOrderIdsUnique ==
    /\ \A j, k \in 1..Len(allocated) :
         (j < k /\ SameDistrict(j, k)) =>
           allocated[j].order_id # allocated[k].order_id
    /\ \A k \in 1..Len(allocated) :
         allocated[k].order_id =
           DistrictRow(InitDB, allocated[k].w_id,
                       allocated[k].d_id).d_next_o_id
             + Cardinality({j \in 1..(k - 1) : SameDistrict(j, k)})
    /\ \A c \in Connectors :
         HoldsOrderId(c) =>
           /\ [w_id |-> call[c].warehouse_id, d_id |-> call[c].district_id,
               order_id |-> call[c].order_id] \in Range(allocated)
           /\ \A c2 \in Connectors \ {c} :
                (HoldsOrderId(c2)
                 /\ call[c2].warehouse_id = call[c].warehouse_id
                 /\ call[c2].district_id = call[c].district_id) =>
                  call[c2].order_id # call[c].order_id
    /\ {[w_id |-> o.o_w_id, d_id |-> o.o_d_id, order_id |-> o.o_id] :
           o \in db.order}
         \ {[w_id |-> o.o_w_id, d_id |-> o.o_d_id, order_id |-> o.o_id] :
              o \in InitDB.order}
         \subseteq Range(allocated)

\* Two connectors are inside New Order calls on the same district at the
\* same time, both past the allocation.
C19_Witness ==
    \E c, c2 \in Connectors :
        /\ c # c2
        /\ HoldsOrderId(c) /\ HoldsOrderId(c2)
        /\ call[c].district_id = call[c2].district_id
        /\ Len(allocated) >= 2

\* The customer row of database D credited for order (w, d, o).
CreditedCustomer(D, e) ==
    {r \in D.customer :
        \E o \in D.order :
            /\ o.o_w_id = e.w_id /\ o.o_d_id = e.d_id /\ o.o_id = e.order_id
            /\ r.c_w_id = o.o_w_id /\ r.c_d_id = o.o_d_id
            /\ r.c_id = o.o_c_id}

\* C20: however Delivery calls of separate connectors interleave, each
\* pending order is delivered at most once: no order has the batch that
\* removes its marker and sets its carrier committed by two calls, and its
\* customer's delivery count grows by at most one per delivered order.
C20_EachOrderDeliveredOnce ==
    /\ \A j, k \in 1..Len(delivered) :
         j # k => delivered[j] # delivered[k]
    /\ \A e \in Range(delivered) :
         \A r \in CreditedCustomer(db, e) :
             \A r0 \in CustomerRows(InitDB, r.c_w_id, r.c_d_id, r.c_id) :
                 r.c_delivery_cnt - r0.c_delivery_cnt
                   <= Cardinality({x \in Range(delivered) :
                                      x.w_id = e.w_id /\ x.d_id = e.d_id})

RECURSIVE ColumnSum(_, _)
\* The sum of column col over the rows of table S.
ColumnSum(S, col) ==
    IF S = {} THEN 0
    ELSE LET r == CHOOSE r \in S : TRUE
         IN  r[col] + ColumnSum(S \ {r}, col)

\* The sum of h_amount over the history rows of database D.
HistoryAmount(D) ==
    SumSeq([k \in 1..Len(D.history) |-> D.history[k].h_amount])

\* The call's warehouse, district and customer all exist in database D.
PaymentTargetExists(D, f) ==
    /\ \E r \in D.warehouse : r.w_id = f.warehouse_id
    /\ \E r \in D.district :
           r.d_w_id = f.warehouse_id /\ r.d_id = f.district_id
    /\ CustomerRows(D, f.warehouse_id, f.district_id, f.customer_id) # {}

\* C21: every execute_payment call adds the same total to the warehouse's
\* w_ytd, to its districts' d_ytd and to the history's h_amount, and
\* subtracts it from the customer balances: its amount when it returned
\* success and nothing when it returned failure; a call naming a warehouse,
\* district or customer that does not exist does not return success.
C21_PaymentTotalsAgree ==
    \A c \in Connectors :
        ret[c].op = "execute_payment" =>
          LET f == ret[c].frame
              paid == IF ret[c].result.success THEN f.amount ELSE 0
          IN  /\ ColumnSum(db.warehouse, "w_ytd")
                   - ColumnSum(pre[c].warehouse, "w_ytd") = paid
              /\ ColumnSum(db.district, "d_ytd")
                   - ColumnSum(pre[c].district, "d_ytd") = paid
              /\ ColumnSum(pre[c].customer, "c_balance")
                   - ColumnSum(db.customer, "c_balance") = paid
              /\ HistoryAmount(db) - HistoryAmount(pre[c]) = paid
              /\ ~ret[c].result.success =>
                   /\ db.warehouse = pre[c].warehouse
                   /\ db.district = pre[c].district
                   /\ db.customer = pre[c].customer
                   /\ db.history = pre[c].history
              /\ ~PaymentTargetExists(pre[c], f) => ~ret[c].result.success

RECURSIVE StockAfterLines(_, _, _)
\* Stock row r after the lines of an order of warehouse w, in order.
StockAfterLines(r, items, w) ==
    IF items = << >> THEN r
    ELSE LET item == Head(items)
             q == item.quantity
             hit == /\ r.s_i_id = item.item_id
                    /\ r.s_w_id = SupplyWarehouse(item, w)
         IN  StockAfterLines(
               IF hit
               THEN [r EXCEPT !.s_quantity = IF @ >= q THEN @ - q
                                             ELSE @ + StockRefill - q,
                              !.s_ytd = @ + q,
                              !.s_order_cnt = @ + 1]
               ELSE r,
               Tail(items), w)

\* C22: s_quantity of every stock row stays non-negative; an
\* execute_new_order call that returned success changed each stock row by
\* its lines in order (s_quantity - q when s_quantity >= q, s_quantity + 91
\* - q otherwise, s_ytd + q, s_order_cnt + 1 per line of quantity q), and a
\* call that returned failure changed no stock row.
C22_StockStaysNonNegative ==
    /\ \A r \in db.stock : r.s_quantity >= 0
    /\ \A c \in Connectors :
         ret[c].op = "execute_new_order" =>
           LET f == ret[c].frame IN
           /\ \A item \in Range(f.items) : item.quantity \in 1..10
           /\ IF ret[c].result.success
              THEN db.stock =
                     {StockAfterLines(r, f.items, f.warehouse_id) :
                        r \in pre[c].stock}
              ELSE db.stock = pre[c].stock

\* An order was committed with a line whose quantity exceeded the stock.
C22_Witness ==
    \E c \in Connectors :
        /\ ret[c].op = "execute_new_order"
        /\ ret[c].result.success
        /\ \E r \in pre[c].stock, r2 \in db.stock :
             /\ r2.s_i_id = r.s_i_id /\ r2.s_w_id = r.s_w_id
             /\ \E item \in Range(ret[c].frame.items) :
                  /\ item.item_id = r.s_i_id
                  /\ r.s_quantity < item.quantity
             /\ r2.s_quantity > r.s_quantity
             /\ r2.s_order_cnt > r.s_order_cnt

====
